---------------------------- MODULE Spec2Model ----------------------------
(***************************************************************************)
(* A model of the cluster-size suggestion tool: the directory scan         *)
(* (analyzeTarget), the two recommenders (pickClusterIndex /               *)
(* recommendClusterSize on byte buckets, pickTier on the tier tables), the *)
(* byte formatter (formatBytes) and the command line's argument loop.      *)
(*                                                                         *)
(* Each part has its own specification over the shared variables; the      *)
(* variables a specification does not use keep their idle value.           *)
(***************************************************************************)
EXTENDS Integers, Sequences, FiniteSets

VARIABLES
    pc,             \* position of the running routine
    fs,             \* the file system under the target (fixed during a scan)
    stats,          \* analyzeTarget: const stats = {...}
    stack,          \* analyzeTarget: const stack = [targetPath]
    entries,        \* analyzeTarget: the entries of currentDir not yet looped over
    currentDir,     \* analyzeTarget: const currentDir = stack.pop()
    fileSizes,      \* analyzeTarget: const fileSizes = []
    calls,          \* log of the file-system calls issued: <<op, path>>
    input,          \* the arguments of the pure function being called
    output,         \* what it returned
    argv,           \* cluster-size.js: const args = process.argv.slice(2)
    rest,           \* cluster-size.js: the args the for loop has not yet reached
    targetArg,      \* cluster-size.js: let targetArg = null
    afterDoubleDash, \* cluster-size.js: let afterDoubleDash = false
    unknownOptions, \* cluster-size.js: const unknownOptions = []
    proc            \* the process: what it printed and its exit code

scanVars == <<fs, stats, stack, entries, currentDir, fileSizes, calls>>

callVars == <<input, output>>

cliVars == <<argv, rest, targetArg, afterDoubleDash, unknownOptions, proc>>

vars == <<pc, scanVars, callVars, cliVars>>

-----------------------------------------------------------------------------
(* Bounds of the model *)

\* Largest number of nodes (root included) of a scanned tree.
MaxNodes == 4

\* Largest number of command-line arguments.
MaxArgs == 3

\* File sizes (bytes) a regular file may have.
Sizes == {0, 100, 300, 900}

-----------------------------------------------------------------------------
(* Sequence helpers *)

RECURSIVE MaxSeq(_)
MaxSeq(s) == IF s = <<>> THEN 0
             ELSE LET m == MaxSeq(Tail(s)) IN IF s[1] > m THEN s[1] ELSE m

\* Array.prototype.sort((a, b) => a - b): ascending, by insertion.
RECURSIVE InsertSorted(_, _)
InsertSorted(x, s) ==
    IF s = <<>> THEN <<x>>
    ELSE IF x <= s[1] THEN <<x>> \o s
    ELSE <<s[1]>> \o InsertSorted(x, Tail(s))

RECURSIVE SortAsc(_)
SortAsc(s) == IF s = <<>> THEN <<>> ELSE InsertSorted(s[1], SortAsc(Tail(s)))

-----------------------------------------------------------------------------
(* The file system.  A node is a number, the root is node 1, and a path is  *)
(* the sequence of nodes from the root: path.join(dir, name) appends one.   *)
(* A node below a symbolic link is what a listing THROUGH the link would    *)
(* show (the link's target directory).  Children are numbered after their   *)
(* parent and siblings in listing order, which loses no tree: every order   *)
(* of every tree is one of the numberings Init draws.                       *)

\* What a node can be: a directory (whose listing may fail), a regular file
\* (of some size, or whose stat fails and shows no size), a symbolic link, or
\* a special file.
NodeAttrs ==
    { [kind |-> "dir", size |-> 0, fails |-> b] : b \in BOOLEAN }
    \cup { [kind |-> "file", size |-> sz, fails |-> FALSE] : sz \in Sizes }
    \cup { [kind |-> "file", size |-> 0, fails |-> TRUE] }
    \cup { [kind |-> k, size |-> 0, fails |-> FALSE] : k \in {"symlink", "other"} }

\* The root as lstat finds it; "missing" is the lstat that fails.
RootAttrs ==
    { a \in NodeAttrs : a.kind = "dir" \/ ~a.fails }
    \cup { [kind |-> "missing", size |-> 0, fails |-> FALSE] }

\* The shapes of a tree of n nodes: parent[c] is the node c is listed in.
Shapes(n) ==
    { parent \in [1..n -> 0..(n - 1)] :
        /\ parent[1] = 0
        /\ \A c \in 2..n : parent[c] \in 1..(c - 1)
        /\ \A c \in 2..(n - 1) : parent[c] <= parent[c + 1] }

\* Only a directory, or a link to one, has entries.
IsTree(n, node, parent) ==
    /\ node[1] \in RootAttrs
    /\ \A c \in 2..n : /\ node[c] \in NodeAttrs
                       /\ node[parent[c]].kind \in {"dir", "symlink"}

RootPath == <<1>>

Node(p) == p[Len(p)]

\* Dirent.isSymbolicLink / isDirectory / isFile, and the same of lstat's Stats.
isSymbolicLink(f, p) == f.node[Node(p)].kind = "symlink"

isDirectory(f, p) == f.node[Node(p)].kind = "dir"

isFile(f, p) == f.node[Node(p)].kind = "file"

\* fs.promises.readdir(dir, {withFileTypes: true}): the entries, as paths.
RECURSIVE ChildrenFrom(_, _, _)
ChildrenFrom(f, p, c) ==
    IF c > f.n THEN <<>>
    ELSE IF f.parent[c] = Node(p) THEN <<Append(p, c)>> \o ChildrenFrom(f, p, c + 1)
    ELSE ChildrenFrom(f, p, c + 1)

readdir(f, p) == ChildrenFrom(f, p, 2)

\* Whether the listing of p, or the stat of p, is the one that fails.
readdirFails(f, p) == f.node[Node(p)].kind = "dir" /\ f.node[Node(p)].fails

statFails(f, p) == f.node[Node(p)].kind = "file" /\ f.node[Node(p)].fails

statSize(f, p) == f.node[Node(p)].size

-----------------------------------------------------------------------------
(* percentile (fixed point).  The ratios used are 0.25, 0.5 and 0.75, so the *)
(* fractional index (n - 1) * ratio is a whole number of quarters and the    *)
(* interpolated value a whole number of quarter bytes: medianBytes,          *)
(* p25Bytes and p75Bytes are held in QUARTER BYTES (4 * the JS number).      *)

Quarter == 4

\* percentile(sortedValues, ratio) with ratio = ratioQ / 4.
percentile(sortedValues, ratioQ) ==
    IF Len(sortedValues) = 0 THEN 0
    ELSE LET clamped == IF ratioQ < 0 THEN 0 ELSE IF ratioQ > Quarter THEN Quarter ELSE ratioQ
             indexQ  == (Len(sortedValues) - 1) * clamped
             lower   == indexQ \div Quarter
             upper   == (indexQ + Quarter - 1) \div Quarter
             weightQ == indexQ - lower * Quarter
         IN  IF lower = upper THEN Quarter * sortedValues[lower + 1]
             ELSE sortedValues[lower + 1] * (Quarter - weightQ)
                  + sortedValues[upper + 1] * weightQ

-----------------------------------------------------------------------------
(* analyzeTarget *)

NoPath == <<>>

InitStats ==
    [ fileCount |-> 0, dirCount |-> 0, totalBytes |-> 0,
      medianBytes |-> 0, p25Bytes |-> 0, p75Bytes |-> 0,
      largestFileBytes |-> 0, largestFilePath |-> NoPath,
      skippedSymlinks |-> 0, unreadableEntries |-> 0 ]

\* The idle values of the variables a specification does not use.
ScanIdle ==
    /\ fs = [n |-> 0, node |-> <<>>, parent |-> <<>>]
    /\ stats = InitStats
    /\ stack = <<>>
    /\ entries = <<>>
    /\ currentDir = NoPath
    /\ fileSizes = <<>>
    /\ calls = <<>>

CallIdle == input = <<>> /\ output = <<>>

NoProc == [stdout |-> <<>>, stderr |-> <<>>, exitCode |-> <<>>]

CliIdle ==
    /\ argv = <<>>
    /\ rest = <<>>
    /\ targetArg = <<>>
    /\ afterDoubleDash = FALSE
    /\ unknownOptions = <<>>
    /\ proc = NoProc

ScanInit ==
    /\ pc = "lstat"
    /\ CallIdle
    /\ CliIdle
    /\ \E n \in 1..MaxNodes :
         \E parent \in Shapes(n) :
           \E node \in [1..n -> NodeAttrs \cup RootAttrs] :
             /\ IsTree(n, node, parent)
             /\ fs = [n |-> n, node |-> node, parent |-> parent]
    /\ stats = InitStats
    /\ stack = <<>>
    /\ entries = <<>>
    /\ currentDir = NoPath
    /\ fileSizes = <<>>
    /\ calls = <<>>

\* rootStat = await fs.promises.lstat(targetPath) throws: "Target not found".
LstatFails ==
    /\ pc = "lstat"
    /\ fs.node[1].kind = "missing"
    /\ calls' = Append(calls, <<"lstat", RootPath>>)
    /\ pc' = "threw"
    /\ UNCHANGED <<fs, stats, stack, entries, currentDir, fileSizes, callVars, cliVars>>

\* if (rootStat.isSymbolicLink()) { stats.skippedSymlinks += 1; return stats; }
RootSymlink ==
    /\ pc = "lstat"
    /\ fs.node[1].kind # "missing"
    /\ isSymbolicLink(fs, RootPath)
    /\ calls' = Append(calls, <<"lstat", RootPath>>)
    /\ stats' = [stats EXCEPT !.skippedSymlinks = @ + 1]
    /\ pc' = "done"
    /\ UNCHANGED <<fs, stack, entries, currentDir, fileSizes, callVars, cliVars>>

\* if (rootStat.isFile()) { ...; return stats; }
RootFile ==
    /\ pc = "lstat"
    /\ fs.node[1].kind # "missing"
    /\ ~isSymbolicLink(fs, RootPath)
    /\ isFile(fs, RootPath)
    /\ calls' = Append(calls, <<"lstat", RootPath>>)
    /\ stats' = [stats EXCEPT !.fileCount = 1,
                              !.totalBytes = statSize(fs, RootPath),
                              !.medianBytes = Quarter * statSize(fs, RootPath),
                              !.p25Bytes = Quarter * statSize(fs, RootPath),
                              !.p75Bytes = Quarter * statSize(fs, RootPath),
                              !.largestFileBytes = statSize(fs, RootPath),
                              !.largestFilePath = RootPath]
    /\ pc' = "done"
    /\ UNCHANGED <<fs, stack, entries, currentDir, fileSizes, callVars, cliVars>>

\* if (!rootStat.isDirectory()) throw new Error('Target must be a file or directory.')
RootInvalid ==
    /\ pc = "lstat"
    /\ fs.node[1].kind # "missing"
    /\ ~isSymbolicLink(fs, RootPath)
    /\ ~isFile(fs, RootPath)
    /\ ~isDirectory(fs, RootPath)
    /\ calls' = Append(calls, <<"lstat", RootPath>>)
    /\ pc' = "threw"
    /\ UNCHANGED <<fs, stats, stack, entries, currentDir, fileSizes, callVars, cliVars>>

\* const stack = [targetPath];
RootDirectory ==
    /\ pc = "lstat"
    /\ fs.node[1].kind # "missing"
    /\ ~isSymbolicLink(fs, RootPath)
    /\ ~isFile(fs, RootPath)
    /\ isDirectory(fs, RootPath)
    /\ calls' = Append(calls, <<"lstat", RootPath>>)
    /\ stack' = <<RootPath>>
    /\ pc' = "while"
    /\ UNCHANGED <<fs, stats, entries, currentDir, fileSizes, callVars, cliVars>>

\* Mutant of ReaddirFails: the failed listing is not caught and ends the call.
ReaddirFailsThrows ==
    /\ pc = "while"
    /\ Len(stack) > 0
    /\ readdirFails(fs, stack[Len(stack)])
    /\ currentDir' = stack[Len(stack)]
    /\ stack' = SubSeq(stack, 1, Len(stack) - 1)
    /\ calls' = Append(calls, <<"readdir", stack[Len(stack)]>>)
    /\ stats' = [stats EXCEPT !.dirCount = @ + 1]
    /\ pc' = "threw"
    /\ UNCHANGED <<fs, entries, fileSizes, callVars, cliVars>>

\* Mutant of ReaddirFails: the directory is counted only after its listing has
\* succeeded, so one that cannot be listed is missing from dirCount.
ReaddirFailsUncounted ==
    /\ pc = "while"
    /\ Len(stack) > 0
    /\ readdirFails(fs, stack[Len(stack)])
    /\ currentDir' = stack[Len(stack)]
    /\ stack' = SubSeq(stack, 1, Len(stack) - 1)
    /\ calls' = Append(calls, <<"readdir", stack[Len(stack)]>>)
    /\ stats' = [stats EXCEPT !.unreadableEntries = @ + 1]
    /\ pc' = "while"
    /\ UNCHANGED <<fs, entries, fileSizes, callVars, cliVars>>

\* currentDir = stack.pop(); stats.dirCount += 1; readdir throws:
\* stats.unreadableEntries += 1; continue;
ReaddirFails ==
    /\ pc = "while"
    /\ Len(stack) > 0
    /\ readdirFails(fs, stack[Len(stack)])
    /\ currentDir' = stack[Len(stack)]
    /\ stack' = SubSeq(stack, 1, Len(stack) - 1)
    /\ calls' = Append(calls, <<"readdir", stack[Len(stack)]>>)
    /\ stats' = [stats EXCEPT !.dirCount = @ + 1, !.unreadableEntries = @ + 1]
    /\ pc' = "while"
    /\ UNCHANGED <<fs, entries, fileSizes, callVars, cliVars>>

\* currentDir = stack.pop(); stats.dirCount += 1; entries = await readdir(...)
ReaddirOk ==
    /\ pc = "while"
    /\ Len(stack) > 0
    /\ ~readdirFails(fs, stack[Len(stack)])
    /\ currentDir' = stack[Len(stack)]
    /\ stack' = SubSeq(stack, 1, Len(stack) - 1)
    /\ calls' = Append(calls, <<"readdir", stack[Len(stack)]>>)
    /\ stats' = [stats EXCEPT !.dirCount = @ + 1]
    /\ entries' = readdir(fs, stack[Len(stack)])
    /\ pc' = "for"
    /\ UNCHANGED <<fs, fileSizes, callVars, cliVars>>

\* Mutant of EntrySymlink: the link is followed like a directory.
EntrySymlinkFollowed ==
    /\ pc = "for"
    /\ Len(entries) > 0
    /\ isSymbolicLink(fs, entries[1])
    /\ stats' = [stats EXCEPT !.skippedSymlinks = @ + 1]
    /\ stack' = Append(stack, entries[1])
    /\ entries' = Tail(entries)
    /\ UNCHANGED <<pc, fs, currentDir, fileSizes, calls, callVars, cliVars>>

\* if (entry.isSymbolicLink()) { stats.skippedSymlinks += 1; continue; }
EntrySymlink ==
    /\ pc = "for"
    /\ Len(entries) > 0
    /\ isSymbolicLink(fs, entries[1])
    /\ stats' = [stats EXCEPT !.skippedSymlinks = @ + 1]
    /\ entries' = Tail(entries)
    /\ UNCHANGED <<pc, fs, stack, currentDir, fileSizes, calls, callVars, cliVars>>

\* if (entry.isDirectory()) { stack.push(entryPath); continue; }
EntryDirectory ==
    /\ pc = "for"
    /\ Len(entries) > 0
    /\ ~isSymbolicLink(fs, entries[1])
    /\ isDirectory(fs, entries[1])
    /\ stack' = Append(stack, entries[1])
    /\ entries' = Tail(entries)
    /\ UNCHANGED <<pc, fs, stats, currentDir, fileSizes, calls, callVars, cliVars>>

\* if (entry.isFile()) { fileStat = await stat(entryPath) throws:
\* stats.unreadableEntries += 1; continue; }
EntryFileStatFails ==
    /\ pc = "for"
    /\ Len(entries) > 0
    /\ ~isSymbolicLink(fs, entries[1])
    /\ ~isDirectory(fs, entries[1])
    /\ isFile(fs, entries[1])
    /\ statFails(fs, entries[1])
    /\ calls' = Append(calls, <<"stat", entries[1]>>)
    /\ stats' = [stats EXCEPT !.unreadableEntries = @ + 1]
    /\ entries' = Tail(entries)
    /\ UNCHANGED <<pc, fs, stack, currentDir, fileSizes, callVars, cliVars>>

\* The largest-file update: if (fileStat.size > stats.largestFileBytes) {...}
FoldLargest(st, size, entryPath) ==
    IF size > st.largestFileBytes
    THEN [st EXCEPT !.largestFileBytes = size, !.largestFilePath = entryPath]
    ELSE st

\* Mutant of FoldFile: totalBytes is assigned the size instead of raised by it.
FoldFileAssigns(st, size, entryPath) ==
    FoldLargest([st EXCEPT !.fileCount = @ + 1, !.totalBytes = size],
                size, entryPath)

\* stats.fileCount += 1; stats.totalBytes += fileStat.size; largest-file update.
FoldFile(st, size, entryPath) ==
    FoldLargest([st EXCEPT !.fileCount = @ + 1, !.totalBytes = @ + size],
                size, entryPath)

\* if (entry.isFile()) { fileStat = await stat(entryPath); fold it in. }
EntryFile ==
    /\ pc = "for"
    /\ Len(entries) > 0
    /\ ~isSymbolicLink(fs, entries[1])
    /\ ~isDirectory(fs, entries[1])
    /\ isFile(fs, entries[1])
    /\ ~statFails(fs, entries[1])
    /\ calls' = Append(calls, <<"stat", entries[1]>>)
    /\ stats' = FoldFile(stats, statSize(fs, entries[1]), entries[1])
    /\ fileSizes' = Append(fileSizes, statSize(fs, entries[1]))
    /\ entries' = Tail(entries)
    /\ UNCHANGED <<pc, fs, stack, currentDir, callVars, cliVars>>

\* An entry that is no link, directory or regular file falls through the loop body.
EntryOther ==
    /\ pc = "for"
    /\ Len(entries) > 0
    /\ ~isSymbolicLink(fs, entries[1])
    /\ ~isDirectory(fs, entries[1])
    /\ ~isFile(fs, entries[1])
    /\ entries' = Tail(entries)
    /\ UNCHANGED <<pc, fs, stats, stack, currentDir, fileSizes, calls, callVars, cliVars>>

\* The for loop is over: back to the while condition.
EndEntries ==
    /\ pc = "for"
    /\ Len(entries) = 0
    /\ pc' = "while"
    /\ UNCHANGED <<fs, stats, stack, entries, currentDir, fileSizes, calls, callVars, cliVars>>

\* while (stack.length > 0) is over; if (fileSizes.length > 0) { sort; percentiles };
\* return stats.
Finish ==
    /\ pc = "while"
    /\ Len(stack) = 0
    /\ stats' = IF Len(fileSizes) > 0
                THEN [stats EXCEPT !.medianBytes = percentile(SortAsc(fileSizes), 2),
                                   !.p25Bytes = percentile(SortAsc(fileSizes), 1),
                                   !.p75Bytes = percentile(SortAsc(fileSizes), 3)]
                ELSE stats
    /\ fileSizes' = SortAsc(fileSizes)
    /\ pc' = "done"
    /\ UNCHANGED <<fs, stack, entries, currentDir, calls, callVars, cliVars>>

ScanNext ==
    \/ LstatFails \/ RootSymlink \/ RootFile \/ RootInvalid \/ RootDirectory
    \/ ReaddirFails \/ ReaddirOk
    \/ EntrySymlink \/ EntryDirectory \/ EntryFileStatFails \/ EntryFile
    \/ EntryOther \/ EndEntries
    \/ Finish

SpecScan == ScanInit /\ [][ScanNext]_vars

\* The calls are awaited one after another and each completes: no step waits.
FairSpecScan == SpecScan /\ WF_vars(ScanNext)

-----------------------------------------------------------------------------
(* What a scan of fs should find, read off the tree alone. *)

RECURSIVE PathOf(_, _)
PathOf(f, n) == IF n = 1 THEN RootPath ELSE Append(PathOf(f, f.parent[n]), n)

\* Node n is the root, or an entry of a directory that is itself reached and
\* whose listing succeeds.
RECURSIVE Reached(_, _)
Reached(f, n) ==
    \/ n = 1
    \/ /\ f.node[f.parent[n]].kind = "dir"
       /\ ~f.node[f.parent[n]].fails
       /\ Reached(f, f.parent[n])

NodesOf(f) == 1..f.n

ReachedOfKind(f, k) == { n \in NodesOf(f) : f.node[n].kind = k /\ Reached(f, n) }

FailedListings(f) == { n \in ReachedOfKind(f, "dir") : f.node[n].fails }

FailedStats(f) == { n \in ReachedOfKind(f, "file") : f.node[n].fails }

CountedFiles(f) == { n \in ReachedOfKind(f, "file") : ~f.node[n].fails }

RECURSIVE SumSizes(_, _)
SumSizes(f, S) ==
    IF S = {} THEN 0
    ELSE LET n == CHOOSE x \in S : TRUE IN f.node[n].size + SumSizes(f, S \ {n})

\* The paths op was called on, and how often it was called on p.
CalledOn(op) == { calls[i][2] : i \in { j \in DOMAIN calls : calls[j][1] = op } }

TimesCalled(op, p) == Cardinality({ i \in DOMAIN calls : calls[i] = <<op, p>> })

\* The path passes through, or ends at, a symbolic link.
ThroughSymlink(f, p) == \E i \in DOMAIN p : f.node[p[i]].kind = "symlink"

RootIsDir == fs.node[1].kind = "dir"

Returned == pc = "done"

-----------------------------------------------------------------------------
(* C1: once the root has been found to be a directory the call never throws; *)
(* on return unreadableEntries is the number of failed listings plus the     *)
(* number of failed stats, and every directory and file outside the failed   *)
(* subtrees was still read or stat'ed.                                       *)
C1_FailuresAbsorbed ==
    RootIsDir =>
      /\ pc # "threw"
      /\ Returned =>
           /\ stats.unreadableEntries
                = Cardinality(FailedListings(fs)) + Cardinality(FailedStats(fs))
           /\ \A n \in ReachedOfKind(fs, "dir") : PathOf(fs, n) \in CalledOn("readdir")
           /\ \A n \in ReachedOfKind(fs, "file") : PathOf(fs, n) \in CalledOn("stat")
           /\ stats.fileCount = Cardinality(CountedFiles(fs))

\* A scan has returned in which a subdirectory with an entry in it could not be
\* listed and a file beside it was counted all the same.
C1_Witness ==
    /\ Returned /\ RootIsDir
    /\ \E d \in FailedListings(fs) : d # 1 /\ \E c \in NodesOf(fs) : c # 1 /\ fs.parent[c] = d
    /\ stats.unreadableEntries = 1
    /\ stats.fileCount = 1

-----------------------------------------------------------------------------
(* C2: a symbolic link is only counted in skippedSymlinks.  A link as root   *)
(* gives skippedSymlinks = 1 and every other counter 0; in a traversal each  *)
(* link listed in a read directory adds exactly 1, no link is stat'ed, listed*)
(* or pushed, and the step that counts it changes neither fileCount nor      *)
(* totalBytes.                                                               *)
C2_SymlinksOnlyCounted ==
    /\ [](/\ (Returned /\ fs.node[1].kind = "symlink")
               => stats = [InitStats EXCEPT !.skippedSymlinks = 1]
          /\ (Returned /\ RootIsDir)
               => stats.skippedSymlinks = Cardinality(ReachedOfKind(fs, "symlink"))
          /\ \A i \in DOMAIN stack : ~ThroughSymlink(fs, stack[i])
          /\ \A p \in CalledOn("stat") \cup CalledOn("readdir") : ~ThroughSymlink(fs, p))
    /\ [][stats'.skippedSymlinks # stats.skippedSymlinks
            => /\ stats'.skippedSymlinks = stats.skippedSymlinks + 1
               /\ stats'.fileCount = stats.fileCount
               /\ stats'.totalBytes = stats.totalBytes
               /\ stack' = stack
               /\ calls' = calls \/ pc = "lstat"]_vars

\* A scan has returned that listed a link with something behind it, next to a file.
C2_Witness ==
    /\ Returned /\ RootIsDir
    /\ stats.skippedSymlinks = 1
    /\ stats.fileCount = 1
    /\ \E l \in ReachedOfKind(fs, "symlink") : \E c \in NodesOf(fs) : c # 1 /\ fs.parent[c] = l

-----------------------------------------------------------------------------
(* C3: on return fileCount is the number of regular files stat'ed with       *)
(* success and totalBytes the sum of their sizes: for a directory root the   *)
(* regular files of every directory reached through readable directories,   *)
(* for a regular-file root 1 and the file's size.                            *)
C3_CountAndTotal ==
    Returned =>
      /\ RootIsDir =>
           /\ stats.fileCount = Cardinality(CountedFiles(fs))
           /\ stats.totalBytes = SumSizes(fs, CountedFiles(fs))
      /\ fs.node[1].kind = "file" =>
           /\ stats.fileCount = 1
           /\ stats.totalBytes = fs.node[1].size

\* The directory of three files of 100, 300 and 900 bytes: 3 files, 1300 bytes.
C3_Witness ==
    /\ Returned /\ RootIsDir
    /\ fs.n = 4
    /\ { fs.node[n].size : n \in CountedFiles(fs) } = {100, 300, 900}
    /\ stats.fileCount = 3
    /\ stats.totalBytes = 1300

-----------------------------------------------------------------------------
(* C4: whenever a regular file has been counted, largestFileBytes is the     *)
(* largest size among the counted files and largestFilePath the path of the  *)
(* first file folded in that has that size.                                  *)

\* The files folded in so far, in order: the stats that succeeded (the root
\* itself when the root is a regular file).
RECURSIVE FoldedOf(_)
FoldedOf(cs) ==
    IF cs = <<>> THEN <<>>
    ELSE IF \/ cs[1][1] = "stat" /\ ~statFails(fs, cs[1][2])
            \/ cs[1][1] = "lstat" /\ fs.node[1].kind = "file"
         THEN <<cs[1][2]>> \o FoldedOf(Tail(cs))
         ELSE FoldedOf(Tail(cs))

Folded == FoldedOf(calls)

MaxFolded == MaxSeq([i \in DOMAIN Folded |-> statSize(fs, Folded[i])])

FirstOfSize(sz) ==
    Folded[CHOOSE i \in DOMAIN Folded :
             /\ statSize(fs, Folded[i]) = sz
             /\ \A j \in 1..(i - 1) : statSize(fs, Folded[j]) # sz]

C4_LargestIsFirstMaximum ==
    stats.fileCount >= 1 =>
      /\ stats.largestFileBytes = MaxFolded
      /\ stats.largestFilePath = FirstOfSize(MaxFolded)

-----------------------------------------------------------------------------
(* C10: the traversal ends, with an empty stack; no directory is popped      *)
(* twice; and dirCount is 1 for the root plus the directory entries listed   *)
(* in directories that were read: a directory whose listing fails counts in  *)
(* dirCount and in unreadableEntries, one below it in neither.               *)
C10_TraversalEnds ==
    /\ <>(pc \in {"done", "threw"})
    /\ [](/\ \A p \in CalledOn("readdir") : TimesCalled("readdir", p) = 1
          /\ (Returned /\ RootIsDir) =>
               /\ stack = <<>>
               /\ stats.dirCount = Cardinality(ReachedOfKind(fs, "dir"))
               /\ CalledOn("readdir")
                    = { PathOf(fs, n) : n \in ReachedOfKind(fs, "dir") })

\* A scan has returned over a directory that could not be listed and had a
\* directory in it.
C10_Witness ==
    /\ Returned /\ RootIsDir
    /\ stack = <<>>
    /\ stats.dirCount = 2
    /\ stats.unreadableEntries = 1
    /\ \E d \in FailedListings(fs) :
         \E c \in NodesOf(fs) : c # 1 /\ fs.parent[c] = d /\ fs.node[c].kind = "dir"

-----------------------------------------------------------------------------
(* JavaScript numbers: a finite number n, NaN, Infinity or -Infinity.  What  *)
(* n counts is said where the number is used.                                *)

Finite(n) == [kind |-> "finite", n |-> n]

NaN == [kind |-> "nan", n |-> 0]

Infinity == [kind |-> "inf", n |-> 0]

NegInfinity == [kind |-> "-inf", n |-> 0]

\* Number.isFinite(v)
isFinite(v) == v.kind = "finite"

\* a < b
NumLt(a, b) ==
    CASE a.kind = "nan" \/ b.kind = "nan" -> FALSE
      [] a.kind = "inf" -> FALSE
      [] a.kind = "-inf" -> b.kind # "-inf"
      [] OTHER -> b.kind = "inf" \/ (b.kind = "finite" /\ a.n < b.n)

\* a === b
NumEq(a, b) == a.kind # "nan" /\ a = b

\* a <= b, a > b
NumLe(a, b) == NumLt(a, b) \/ NumEq(a, b)

NumGt(a, b) == NumLt(b, a)

\* a / b for a > 0 and b > 0, as a fraction: finite / finite is num / den,
\* Infinity / finite is Infinity, finite / Infinity is 0, Infinity / Infinity NaN.
\* (A double quotient of two doubles is >= 4 exactly when the exact one is: 4 is
\* a double, and rounding to nearest never carries a quotient across a double.)
NumDiv(a, b) ==
    CASE a.kind = "finite" /\ b.kind = "finite" -> [kind |-> "finite", num |-> a.n, den |-> b.n]
      [] a.kind = "inf" /\ b.kind = "finite"    -> [kind |-> "inf", num |-> 0, den |-> 1]
      [] a.kind = "finite" /\ b.kind = "inf"    -> [kind |-> "finite", num |-> 0, den |-> 1]
      [] OTHER                                  -> [kind |-> "nan", num |-> 0, den |-> 1]

\* quotient >= c, for a quotient of NumDiv
QuotGe(r, c) == r.kind = "inf" \/ (r.kind = "finite" /\ r.num >= c * r.den)

-----------------------------------------------------------------------------
(* The byte buckets and the median recommender.  Its arguments come from     *)
(* percentile, so they are numbers of QUARTER BYTES, like stats.medianBytes. *)

KIB == 1024

MIB == KIB * 1024

CLUSTER_BYTES ==
    << 4 * KIB, 8 * KIB, 16 * KIB, 32 * KIB, 64 * KIB, 128 * KIB, 256 * KIB,
       512 * KIB, 1 * MIB >>

\* The for loop of pickClusterIndex from index i on (indices from 0, as in the code).
RECURSIVE PickFrom(_, _)
PickFrom(value, i) ==
    IF i >= Len(CLUSTER_BYTES) THEN Len(CLUSTER_BYTES) - 1
    ELSE LET size == Finite(Quarter * CLUSTER_BYTES[i + 1])
         IN  IF NumEq(value, size) THEN i
             ELSE IF NumLt(value, size) THEN (IF i - 1 > 0 THEN i - 1 ELSE 0)
             ELSE PickFrom(value, i + 1)

\* Mutant of pickClusterIndex: the guard against what is not finite is missing.
pickClusterIndexUnguarded(value) ==
    IF NumLe(value, Finite(0)) THEN 0
    ELSE PickFrom(value, 0)

pickClusterIndex(value) ==
    IF ~isFinite(value) \/ NumLe(value, Finite(0)) THEN 0
    ELSE PickFrom(value, 0)

Null == <<>>

\* Mutant of heterogenous: the ratio must exceed 4.
heterogenousStrict(p25Bytes, p75Bytes) ==
    /\ NumGt(p25Bytes, Finite(0))
    /\ NumGt(p75Bytes, Finite(0))
    /\ QuotGe(NumDiv(p75Bytes, p25Bytes), 4)
    /\ ~(p75Bytes.kind = "finite" /\ p25Bytes.kind = "finite" /\ p75Bytes.n = 4 * p25Bytes.n)

\* const heterogenous = p25Bytes > 0 && p75Bytes > 0 && p75Bytes / p25Bytes >= 4
heterogenous(p25Bytes, p75Bytes) ==
    /\ NumGt(p25Bytes, Finite(0))
    /\ NumGt(p75Bytes, Finite(0))
    /\ QuotGe(NumDiv(p75Bytes, p25Bytes), 4)

recommendClusterSize(medianBytes, p25Bytes, p75Bytes) ==
    LET clusterIndex == pickClusterIndex(medianBytes)
        lowIndex     == pickClusterIndex(p25Bytes)
        highIndex    == pickClusterIndex(p75Bytes)
    IN  [ clusterBytes |-> CLUSTER_BYTES[clusterIndex + 1],
          clusterIndex |-> clusterIndex,
          medianBytes  |-> medianBytes,
          p25Bytes     |-> p25Bytes,
          p75Bytes     |-> p75Bytes,
          range        |-> IF heterogenous(p25Bytes, p75Bytes) /\ lowIndex # highIndex
                           THEN << [ lowBytes  |-> CLUSTER_BYTES[lowIndex + 1],
                                     highBytes |-> CLUSTER_BYTES[highIndex + 1],
                                     lowIndex  |-> lowIndex,
                                     highIndex |-> highIndex ] >>
                           ELSE Null,
          driver       |-> "median file size drives cluster size recommendation." ]

\* The values tried, in quarter bytes: around every bucket, around zero, a
\* quarter byte, beyond the last bucket, and the numbers that are not finite.
ClusterValues ==
    { Finite(Quarter * CLUSTER_BYTES[i] + d) : i \in DOMAIN CLUSTER_BYTES, d \in {-1, 0, 1} }
    \cup { Finite(n) : n \in {-Quarter, 0, 1, Quarter * 2 * MIB} }
    \cup { NaN, Infinity, NegInfinity }

ClusterInit ==
    /\ pc = "call"
    /\ input \in [ medianBytes : ClusterValues, p25Bytes : ClusterValues,
                   p75Bytes : ClusterValues ]
    /\ output = <<>>
    /\ ScanIdle
    /\ CliIdle

\* pickClusterIndex(medianBytes)
CallPickClusterIndex ==
    /\ pc = "call"
    /\ output' = [fn |-> "pickClusterIndex", index |-> pickClusterIndex(input.medianBytes)]
    /\ pc' = "returned"
    /\ UNCHANGED <<input, scanVars, cliVars>>

\* recommendClusterSize(medianBytes, p25Bytes, p75Bytes)
CallRecommendClusterSize ==
    /\ pc = "call"
    /\ output' = [fn |-> "recommendClusterSize",
                  recommendation |->
                      recommendClusterSize(input.medianBytes, input.p25Bytes, input.p75Bytes)]
    /\ pc' = "returned"
    /\ UNCHANGED <<input, scanVars, cliVars>>

ClusterNext == CallPickClusterIndex \/ CallRecommendClusterSize

SpecCluster == ClusterInit /\ [][ClusterNext]_vars

-----------------------------------------------------------------------------
(* The buckets as the claims describe them: 4 KiB doubling, indices 0..8. *)

RECURSIVE Doubled(_, _)
Doubled(b, i) == IF i = 0 THEN b ELSE 2 * Doubled(b, i - 1)

\* Bucket i, in bytes.
Bucket(i) == Doubled(4096, i)

BucketIndices == 0..8

\* v, a number of quarter bytes, against bucket i.
AtBucket(v, i) == isFinite(v) /\ v.n = Quarter * Bucket(i)

BelowBucket(v, i) == isFinite(v) /\ v.n < Quarter * Bucket(i)

AboveBucket(v, i) == isFinite(v) /\ v.n > Quarter * Bucket(i)

Positive(v) == isFinite(v) /\ v.n > 0

\* The index of the largest bucket <= v, and 0 when there is none.
LargestBucketAtMost(v) ==
    LET le == { i \in BucketIndices : ~BelowBucket(v, i) }
    IN  IF le = {} THEN 0 ELSE CHOOSE i \in le : \A j \in le : j <= i

PickReturned == pc = "returned" /\ output.fn = "pickClusterIndex"

-----------------------------------------------------------------------------
(* C5: pickClusterIndex returns 0 for a value <= 0 or not finite, i for a    *)
(* value equal to bucket i, i - 1 for a value strictly between buckets i - 1 *)
(* and i, 0 for a positive value below the first bucket and 8 above the      *)
(* last: for a positive value, the largest bucket <= value, clamped to 0.    *)
C5_PickClusterIndex ==
    PickReturned =>
      LET v == input.medianBytes
          r == output.index
      IN  /\ (~isFinite(v) \/ v.n <= 0) => r = 0
          /\ \A i \in BucketIndices : AtBucket(v, i) => r = i
          /\ \A i \in BucketIndices \ {0} :
                (AboveBucket(v, i - 1) /\ BelowBucket(v, i)) => r = i - 1
          /\ (Positive(v) /\ BelowBucket(v, 0)) => r = 0
          /\ AboveBucket(v, 8) => r = 8
          /\ Positive(v) => r = LargestBucketAtMost(v)

\* pickClusterIndex has returned 3 for a value a quarter byte under bucket 4.
C5_Witness ==
    /\ PickReturned
    /\ AboveBucket(input.medianBytes, 3) /\ BelowBucket(input.medianBytes, 4)
    /\ output.index = 3

-----------------------------------------------------------------------------
(* C6: recommendClusterSize returns clusterBytes = the bucket of the median, *)
(* and a range exactly when p25Bytes > 0, p75Bytes > 0, p75Bytes >= 4 *      *)
(* p25Bytes and the buckets of p25Bytes and p75Bytes differ; the range is    *)
(* then [bucket(p25), bucket(p75)], and null in every other case.            *)

\* The bucket index of the claims: 0 for what is not positive and finite.
IndexOf(v) == IF Positive(v) THEN LargestBucketAtMost(v) ELSE 0

\* p75 >= 4 * p25 for p25 > 0 and p75 > 0.
AtLeastFourTimes(p75, p25) ==
    \/ p75.kind = "inf"
    \/ p75.kind = "finite" /\ p25.kind = "finite" /\ p75.n >= 4 * p25.n

IsPositive(v) == v.kind = "inf" \/ Positive(v)

RangeExpected(p25, p75) ==
    /\ IsPositive(p25)
    /\ IsPositive(p75)
    /\ AtLeastFourTimes(p75, p25)
    /\ IndexOf(p25) # IndexOf(p75)

RecommendReturned == pc = "returned" /\ output.fn = "recommendClusterSize"

C6_RecommendClusterSize ==
    RecommendReturned =>
      LET r == output.recommendation
      IN  /\ r.clusterBytes = Bucket(IndexOf(input.medianBytes))
          /\ (r.range # Null) <=> RangeExpected(input.p25Bytes, input.p75Bytes)
          /\ r.range # Null =>
               /\ r.range[1].lowBytes = Bucket(IndexOf(input.p25Bytes))
               /\ r.range[1].highBytes = Bucket(IndexOf(input.p75Bytes))

\* A range has been returned for p75 exactly four times p25.
C6_Witness ==
    /\ RecommendReturned
    /\ isFinite(input.p25Bytes) /\ isFinite(input.p75Bytes)
    /\ input.p25Bytes.n > 0
    /\ input.p75Bytes.n = 4 * input.p25Bytes.n
    /\ output.recommendation.range # Null
    /\ output.recommendation.range[1].lowBytes < output.recommendation.range[1].highBytes

-----------------------------------------------------------------------------
(* The tier tables.  A byte count is held in MiB (2^20 bytes, rounded down): *)
(* every size limit is a whole number of MiB, so value < limit in bytes is   *)
(* value < limit in MiB, and 2 TiB of bytes is more than a TLC integer holds.*)
(* A file count is held as it is.                                            *)

\* 1 GiB, in MiB.
GIB == 1024

TIB == GIB * 1024

SIZE_TIERS ==
    << [limit |-> Finite(200),       label |-> "under 200 MB"],
       [limit |-> Finite(1 * GIB),   label |-> "200 MB to 1 GB"],
       [limit |-> Finite(5 * GIB),   label |-> "1 GB to 5 GB"],
       [limit |-> Finite(20 * GIB),  label |-> "5 GB to 20 GB"],
       [limit |-> Finite(100 * GIB), label |-> "20 GB to 100 GB"],
       [limit |-> Finite(500 * GIB), label |-> "100 GB to 500 GB"],
       [limit |-> Finite(2 * TIB),   label |-> "500 GB to 2 TB"],
       [limit |-> Infinity,          label |-> "over 2 TB"] >>

FILE_TIERS ==
    << [limit |-> Finite(2000),     label |-> "under 2k files"],
       [limit |-> Finite(10000),    label |-> "2k to 10k files"],
       [limit |-> Finite(50000),    label |-> "10k to 50k files"],
       [limit |-> Finite(200000),   label |-> "50k to 200k files"],
       [limit |-> Finite(1000000),  label |-> "200k to 1M files"],
       [limit |-> Finite(5000000),  label |-> "1M to 5M files"],
       [limit |-> Finite(20000000), label |-> "5M to 20M files"],
       [limit |-> Infinity,         label |-> "over 20M files"] >>

\* Mutant of PickTierFrom: value <= limit in place of value < limit.
RECURSIVE PickTierFromInclusive(_, _, _)
PickTierFromInclusive(value, tiers, i) ==
    IF i >= Len(tiers)
    THEN [index |-> Len(tiers) - 1, label |-> tiers[Len(tiers)].label,
          limit |-> tiers[Len(tiers)].limit]
    ELSE IF NumLe(value, tiers[i + 1].limit)
         THEN [index |-> i, label |-> tiers[i + 1].label, limit |-> tiers[i + 1].limit]
         ELSE PickTierFromInclusive(value, tiers, i + 1)

\* The for loop of pickTier from index i on (indices from 0, as in the code).
RECURSIVE PickTierFrom(_, _, _)
PickTierFrom(value, tiers, i) ==
    IF i >= Len(tiers)
    THEN [index |-> Len(tiers) - 1, label |-> tiers[Len(tiers)].label,
          limit |-> tiers[Len(tiers)].limit]
    ELSE IF NumLt(value, tiers[i + 1].limit)
         THEN [index |-> i, label |-> tiers[i + 1].label, limit |-> tiers[i + 1].limit]
         ELSE PickTierFrom(value, tiers, i + 1)

pickTier(value, tiers) == PickTierFrom(value, tiers, 0)

Tables == [size |-> SIZE_TIERS, files |-> FILE_TIERS]

\* The values tried on a table: around every finite limit, zero, below zero,
\* and the numbers that are not finite.
TierValues(tiers) ==
    { Finite(tiers[i].limit.n + d) : i \in 1..(Len(tiers) - 1), d \in {-1, 0, 1} }
    \cup { Finite(0), Finite(-1), NaN, Infinity, NegInfinity }

TierInit ==
    /\ pc = "call"
    /\ \E t \in DOMAIN Tables :
         \E v \in TierValues(Tables[t]), w \in TierValues(Tables[t]) :
           input = [table |-> t, v |-> v, w |-> w]
    /\ output = <<>>
    /\ ScanIdle
    /\ CliIdle

\* pickTier(v, tiers) and pickTier(w, tiers)
CallPickTier ==
    /\ pc = "call"
    /\ output' = [fn |-> "pickTier",
                  v |-> pickTier(input.v, Tables[input.table]),
                  w |-> pickTier(input.w, Tables[input.table])]
    /\ pc' = "returned"
    /\ UNCHANGED <<input, scanVars, cliVars>>

TierNext == CallPickTier

SpecTier == TierInit /\ [][TierNext]_vars

-----------------------------------------------------------------------------
(* C7: pickTier is monotonic on both tables: v <= w gives tier(v) <= tier(w);*)
(* the index returned is that of the first tier whose limit strictly exceeds *)
(* the value, and the last tier, 7, when no finite limit does.               *)

TierReturned == pc = "returned" /\ output.fn = "pickTier"

\* The limits of the table that strictly exceed v, by index.
Exceeding(v, tiers) == { i \in 0..(Len(tiers) - 1) : NumLt(v, tiers[i + 1].limit) }

ExceedsAllFinite(v, tiers) ==
    \A i \in 1..Len(tiers) : isFinite(tiers[i].limit) => NumLe(tiers[i].limit, v)

C7_TierMonotonic ==
    TierReturned =>
      LET tiers == Tables[input.table]
      IN  /\ NumLe(input.v, input.w) => output.v.index <= output.w.index
          /\ Exceeding(input.v, tiers) # {} =>
               /\ output.v.index \in Exceeding(input.v, tiers)
               /\ \A j \in Exceeding(input.v, tiers) : output.v.index <= j
          /\ ExceedsAllFinite(input.v, tiers) => output.v.index = 7

\* Two values on either side of a limit have been given different tiers.
C7_Witness ==
    /\ TierReturned
    /\ isFinite(input.v) /\ isFinite(input.w)
    /\ input.w.n = input.v.n + 1
    /\ output.v.index = 2
    /\ output.w.index = 3

-----------------------------------------------------------------------------
(* The command line (bin/cluster-size.js).  An argument is the sequence of   *)
(* its characters, so that startsWith('-') reads the first one.              *)

Dash == "-"

OptH == <<Dash, "h">>

OptHelp == <<Dash, Dash, "h", "e", "l", "p">>

DoubleDash == <<Dash, Dash>>

\* The arguments tried: the two help flags, the end of options, a short and a
\* long unknown option, a lone dash, a path, and the empty string.
Tokens ==
    { OptH, OptHelp, DoubleDash, <<Dash, "x">>, <<Dash, Dash, "x">>, <<Dash>>,
      <<"d", "i", "r">>, <<>> }

\* arg.startsWith('-')
startsWithDash(arg) == Len(arg) > 0 /\ arg[1] = Dash

ArgLists == UNION { [1..n -> Tokens] : n \in 0..MaxArgs }

CliInit ==
    /\ pc = "args"
    /\ argv \in ArgLists
    /\ rest = argv
    /\ targetArg = Null
    /\ afterDoubleDash = FALSE
    /\ unknownOptions = <<>>
    /\ proc = NoProc
    /\ ScanIdle
    /\ CallIdle

\* if (afterDoubleDash) { if (targetArg === null) { targetArg = arg; } continue; }
ArgAfterDoubleDash ==
    /\ pc = "args"
    /\ Len(rest) > 0
    /\ afterDoubleDash
    /\ targetArg' = IF targetArg = Null THEN <<rest[1]>> ELSE targetArg
    /\ rest' = Tail(rest)
    /\ UNCHANGED <<pc, argv, afterDoubleDash, unknownOptions, proc, scanVars, callVars>>

\* if (arg === '--') { afterDoubleDash = true; continue; }
ArgDoubleDash ==
    /\ pc = "args"
    /\ Len(rest) > 0
    /\ ~afterDoubleDash
    /\ rest[1] = DoubleDash
    /\ afterDoubleDash' = TRUE
    /\ rest' = Tail(rest)
    /\ UNCHANGED <<pc, argv, targetArg, unknownOptions, proc, scanVars, callVars>>

\* if (arg === '-h' || arg === '--help') { printHelp(); process.exit(0); }
ArgHelp ==
    /\ pc = "args"
    /\ Len(rest) > 0
    /\ ~afterDoubleDash
    /\ rest[1] # DoubleDash
    /\ rest[1] = OptH \/ rest[1] = OptHelp
    /\ proc' = [proc EXCEPT !.stdout = Append(@, "help"), !.exitCode = <<0>>]
    /\ pc' = "exited"
    /\ UNCHANGED <<argv, rest, targetArg, afterDoubleDash, unknownOptions, scanVars, callVars>>

\* Mutant of ArgUnknownOption: the option is taken for the path.
ArgUnknownOptionAsPath ==
    /\ pc = "args"
    /\ Len(rest) > 0
    /\ ~afterDoubleDash
    /\ rest[1] # DoubleDash
    /\ ~(rest[1] = OptH \/ rest[1] = OptHelp)
    /\ startsWithDash(rest[1])
    /\ targetArg' = IF targetArg = Null THEN <<rest[1]>> ELSE targetArg
    /\ rest' = Tail(rest)
    /\ UNCHANGED <<pc, argv, afterDoubleDash, unknownOptions, proc, scanVars, callVars>>

\* if (arg.startsWith('-')) { unknownOptions.push(arg); continue; }
ArgUnknownOption ==
    /\ pc = "args"
    /\ Len(rest) > 0
    /\ ~afterDoubleDash
    /\ rest[1] # DoubleDash
    /\ ~(rest[1] = OptH \/ rest[1] = OptHelp)
    /\ startsWithDash(rest[1])
    /\ unknownOptions' = Append(unknownOptions, rest[1])
    /\ rest' = Tail(rest)
    /\ UNCHANGED <<pc, argv, targetArg, afterDoubleDash, proc, scanVars, callVars>>

\* if (targetArg === null) { targetArg = arg; }
ArgPositional ==
    /\ pc = "args"
    /\ Len(rest) > 0
    /\ ~afterDoubleDash
    /\ rest[1] # DoubleDash
    /\ ~(rest[1] = OptH \/ rest[1] = OptHelp)
    /\ ~startsWithDash(rest[1])
    /\ targetArg' = IF targetArg = Null THEN <<rest[1]>> ELSE targetArg
    /\ rest' = Tail(rest)
    /\ UNCHANGED <<pc, argv, afterDoubleDash, unknownOptions, proc, scanVars, callVars>>

\* if (unknownOptions.length > 0) { exitWithError(`Unknown option(s): ...`); }
ExitUnknownOptions ==
    /\ pc = "args"
    /\ Len(rest) = 0
    /\ Len(unknownOptions) > 0
    /\ proc' = [proc EXCEPT !.stderr = Append(@, "Error: Unknown option(s)"),
                            !.exitCode = <<1>>]
    /\ pc' = "exited"
    /\ UNCHANGED <<argv, rest, targetArg, afterDoubleDash, unknownOptions, scanVars, callVars>>

\* const targetPath = path.resolve(process.cwd(), targetArg || '.');
\* analyzeTarget(targetPath): the scan starts.
StartScan ==
    /\ pc = "args"
    /\ Len(rest) = 0
    /\ Len(unknownOptions) = 0
    /\ pc' = "analyzeTarget"
    /\ UNCHANGED <<cliVars, scanVars, callVars>>

CliNext ==
    \/ ArgAfterDoubleDash \/ ArgDoubleDash \/ ArgHelp \/ ArgUnknownOption
    \/ ArgPositional \/ ExitUnknownOptions \/ StartScan

SpecCli == CliInit /\ [][CliNext]_vars

-----------------------------------------------------------------------------
(* What the argument list asks for, read off argv alone. *)

\* The arguments before the first '--' (all of them when there is none).
RECURSIVE Options(_)
Options(as) ==
    IF as = <<>> \/ as[1] = DoubleDash THEN <<>>
    ELSE <<as[1]>> \o Options(Tail(as))

IsHelp(arg) == arg = OptH \/ arg = OptHelp

IsUnknown(arg) == startsWithDash(arg) /\ ~IsHelp(arg) /\ arg # DoubleDash

HasUnknownOption == \E i \in DOMAIN Options(argv) : IsUnknown(Options(argv)[i])

HasHelp == \E i \in DOMAIN Options(argv) : IsHelp(Options(argv)[i])

CliEnded == pc \in {"exited", "analyzeTarget"}

ExitedUnknown ==
    /\ pc = "exited"
    /\ proc.exitCode = <<1>>
    /\ proc.stderr = <<"Error: Unknown option(s)">>
    /\ proc.stdout = <<>>

-----------------------------------------------------------------------------
(* C8 as claimed: whenever an unknown option stands before '--', the run     *)
(* ends with the unknown-option error on standard error and exit code 1,     *)
(* without help and without a scan.                                          *)
C8_UnknownOptionAlwaysFails ==
    (CliEnded /\ HasUnknownOption) => ExitedUnknown

(* C8 as the code has it: an unknown option before '--' ends the run with    *)
(* the unknown-option error and exit code 1, without help and without a      *)
(* scan, unless -h or --help also stands before '--': the loop then prints   *)
(* the help and exits 0 when it reaches it.  No scan starts either way.      *)
C8_UnknownOptionFailsUnlessHelp ==
    (CliEnded /\ HasUnknownOption) =>
      /\ pc = "exited"
      /\ ~HasHelp => ExitedUnknown
      /\ HasHelp => (proc.exitCode = <<0>> /\ proc.stdout = <<"help">> /\ proc.stderr = <<>>)

\* A run has ended with the error for an unknown option before '--', with a
\* help flag behind the '--'.
C8_Witness ==
    /\ ExitedUnknown
    /\ Len(argv) = 3
    /\ IsUnknown(argv[1]) /\ argv[2] = DoubleDash /\ IsHelp(argv[3])

-----------------------------------------------------------------------------
(* formatBytes.  Its argument is a number m * 1024^e (kind "finite"), NaN,   *)
(* Infinity or -Infinity: dividing by 1024 lowers e, which is exact, as it   *)
(* is on doubles.  Its result is the text `${formatted} ${unit}`, held as    *)
(* the unit, the number of decimals, and formatted without its point         *)
(* (scaled = value * 10^decimals, rounded): "5.00 B" is scaled 500,          *)
(* decimals 2, unit "B".                                                     *)

Scaled(m, e) == [kind |-> "finite", m |-> m, e |-> e]

units == <<"B", "KB", "MB", "GB", "TB", "PB">>

Pow1024(j) == IF j = 0 THEN 1 ELSE IF j = 1 THEN 1024 ELSE 1048576

\* m * 1024^e >= c, for 1 <= m < 1024^2 and 1 <= c <= 1024.
ValueGe(m, e, c) ==
    IF e >= 2 THEN TRUE
    ELSE IF e >= 0 THEN m * Pow1024(e) >= c
    ELSE IF e >= -2 THEN m >= c * Pow1024(-e)
    ELSE FALSE

\* while (value >= 1024 && unitIndex < units.length - 1) { value /= 1024; unitIndex += 1; }
RECURSIVE ScaleDown(_, _, _)
ScaleDown(m, e, unitIndex) ==
    IF ValueGe(m, e, 1024) /\ unitIndex < Len(units) - 1
    THEN ScaleDown(m, e - 1, unitIndex + 1)
    ELSE [m |-> m, e |-> e, unitIndex |-> unitIndex]

Pow10(d) == IF d = 0 THEN 1 ELSE IF d = 1 THEN 10 ELSE 100

\* value.toFixed(d), without the point: the integer nearest value * 10^d, the
\* larger one of two.
toFixed(m, e, d) ==
    IF e >= 0 THEN m * Pow1024(e) * Pow10(d)
    ELSE (2 * m * Pow10(d) + Pow1024(-e)) \div (2 * Pow1024(-e))

\* Mutant of decimalsFor: the thresholds are ten times too high.
decimalsForShifted(m, e) ==
    IF ValueGe(m, e, 1000) THEN 0 ELSE IF ValueGe(m, e, 100) THEN 1 ELSE 2

\* The decimals chosen: value >= 100 -> 0, value >= 10 -> 1, else 2.
decimalsFor(m, e) ==
    IF ValueGe(m, e, 100) THEN 0 ELSE IF ValueGe(m, e, 10) THEN 1 ELSE 2

ZeroBytes == [scaled |-> 0, decimals |-> 0, unit |-> "B"]

formatBytes(bytes) ==
    IF bytes.kind # "finite" \/ bytes.m <= 0 THEN ZeroBytes
    ELSE LET v == ScaleDown(bytes.m, bytes.e, 0)
             d == decimalsFor(v.m, v.e)
         IN  [scaled |-> toFixed(v.m, v.e, d), decimals |-> d, unit |-> units[v.unitIndex + 1]]

\* The mantissas and exponents tried: from 1/1024 of a byte to 1024 PB and more.
Mantissas ==
    {1, 5, 9, 10, 99, 100, 128, 512, 1000, 1023, 1024, 1025, 10239, 10240, 102400, 1048575}

Exponents == -1..6

ByteValues ==
    { Scaled(m, e) : m \in Mantissas, e \in Exponents }
    \cup { Scaled(0, 0), Scaled(-5, 0),
           [kind |-> "nan", m |-> 0, e |-> 0], [kind |-> "inf", m |-> 0, e |-> 0],
           [kind |-> "-inf", m |-> 0, e |-> 0] }

FormatInit ==
    /\ pc = "call"
    /\ input \in ByteValues
    /\ output = <<>>
    /\ ScanIdle
    /\ CliIdle

\* formatBytes(bytes)
CallFormatBytes ==
    /\ pc = "call"
    /\ output' = [fn |-> "formatBytes", text |-> formatBytes(input)]
    /\ pc' = "returned"
    /\ UNCHANGED <<input, scanVars, cliVars>>

FormatNext == CallFormatBytes

SpecFormat == FormatInit /\ [][FormatNext]_vars

-----------------------------------------------------------------------------
(* What formatBytes should print, read off the number alone. *)

FormatReturned == pc = "returned" /\ output.fn = "formatBytes"

IsPositiveBytes(b) == b.kind = "finite" /\ b.m > 0

\* b < c, for c = 10, 100 or 1024 (NaN and Infinity are below nothing).
BytesBelow(b, c) ==
    \/ b.kind = "-inf"
    \/ b.kind = "finite" /\ (b.m <= 0 \/ ~ValueGe(b.m, b.e, c))

\* How often a positive b is divided by 1024 before it is below 1024, PB (5)
\* being the last unit: 1024^k <= b < 1024^(k + 1), capped, and 0 below one byte.
UnitIndexOf(b) ==
    LET k == b.e + (IF b.m >= 1024 THEN 1 ELSE 0)
    IN  IF k < 0 THEN 0 ELSE IF k > 5 THEN 5 ELSE k

UnitsAndZero ==
    /\ (input.kind = "finite" /\ input.m = 0) => output.text = ZeroBytes
    /\ output.text.unit \in {"B", "KB", "MB", "GB", "TB", "PB"}
    /\ IsPositiveBytes(input) => output.text.unit = units[UnitIndexOf(input) + 1]

-----------------------------------------------------------------------------
(* C9 as claimed: formatBytes(0) is "0 B"; the unit is one of B, KB, MB, GB, *)
(* TB, PB, chosen by dividing by 1024 with PB last; and every value below    *)
(* 1024 is printed in B with 0 decimals.                                     *)
C9_Below1024NoDecimals ==
    FormatReturned =>
      /\ UnitsAndZero
      /\ BytesBelow(input, 1024) => (output.text.unit = "B" /\ output.text.decimals = 0)

(* C9 as the code has it: formatBytes(0) is "0 B"; the unit is one of B, KB, *)
(* MB, GB, TB, PB, chosen by dividing by 1024 with PB last; and every value  *)
(* below 1024 is printed in B, with 0 decimals when it is >= 100 or <= 0,    *)
(* with 1 decimal from 10 up to 100 and with 2 decimals when positive and    *)
(* below 10.                                                                 *)
C9_Below1024InBytes ==
    FormatReturned =>
      /\ UnitsAndZero
      /\ BytesBelow(input, 1024) =>
           /\ output.text.unit = "B"
           /\ output.text.decimals =
                (IF ~IsPositiveBytes(input) \/ ~BytesBelow(input, 100) THEN 0
                 ELSE IF ~BytesBelow(input, 10) THEN 1 ELSE 2)

\* 5 bytes have been printed as "5.00 B".
C9_Witness ==
    /\ FormatReturned
    /\ input = Scaled(5, 0)
    /\ output.text = [scaled |-> 500, decimals |-> 2, unit |-> "B"]

=============================================================================
